---- MODULE Spec2Model ----
(***************************************************************************)
(* os2mo_fkk/models.py: conversion of a temporal FKK Klasse and of a MO     *)
(* GraphQL class into the intermediate, comparable ClassValidity objects.   *)
(*                                                                         *)
(* Both conversions are Python generators.  A behaviour of this module is   *)
(* one generator being driven to its end: every loop iteration is a step,   *)
(* `out` is what the consumer has received so far, and pc tells whether the *)
(* generator is still running, is exhausted, or has raised.                 *)
(*                                                                         *)
(* Timestamps are integers.  For the FKK side the smallest and the largest  *)
(* value of the domain are the sentinels NEGATIVE_INFINITY and              *)
(* POSITIVE_INFINITY of os2mo_fkk.util; the deserialised Klasse carries     *)
(* these very objects, so `is` and `==` agree on them.  For the MO side a   *)
(* timestamp counts half days, so that an even value is a midnight and      *)
(* timedelta(days=1) is TicksPerDay.                                        *)
(* An optional value (datetime | None, UUID | None) is None or Some(x).     *)
(***************************************************************************)
EXTENDS Integers, Sequences, FiniteSets

\* ------------------------------------------------------------------ bounds
\* Finite (non-sentinel) FKK timestamps are 1..MaxTime.
MaxTime == 1
\* Entries of one Klasse, over its three timelines together.
MaxEntries == 4
\* MO timestamps are 0..MaxTick (half days).
MaxTick == 2
\* Validities of one MO class.
MaxValidities == 2

\* ------------------------------------------------------------ optional values
None == <<>>
Some(x) == <<x>>

\* ---------------------------------------------------------------- FKK Klasse
NEGATIVE_INFINITY == 0
POSITIVE_INFINITY == MaxTime + 1

Times == NEGATIVE_INFINITY..POSITIVE_INFINITY

\* HasVirking.virkning: an effective range [fra, til) with fra before til.
Virkninger == {[fra |-> a, til |-> b] : a \in Times, b \in Times} \cap
              {v \in [fra : Times, til : Times] : v.fra < v.til}

\* klasse.attribut_egenskab entries
Egenskaber ==
    {[virkning |-> v, brugervendtnoegle |-> p[1], titel |-> p[2]] :
        v \in Virkninger, p \in {<<"k1", "A">>, <<"k2", "B">>}}

\* klasse.tilstand_publiceret entries
Publiceringer ==
    {[virkning |-> v, er_publiceret |-> b] : v \in Virkninger, b \in BOOLEAN}

\* klasse.relation_overordnet entries
Overordnede == {[virkning |-> v, uuid |-> "p1"] : v \in Virkninger}

RECURSIVE Exactly(_, _)
\* The subsets of S with exactly k elements.
Exactly(S, k) ==
    IF k = 0 THEN {{}}
    ELSE LET smaller == Exactly(S, k - 1)
         IN  {t \in {s \cup {x} : s \in smaller, x \in S} :
                Cardinality(t) = k}

\* How many entries each of the three timelines holds.
Sizes ==
    {n \in (0..MaxEntries) \X (0..MaxEntries) \X (0..MaxEntries) :
        n[1] + n[2] + n[3] <= MaxEntries}

\* The Klasse objects of the model whose timelines hold n[1], n[2] and n[3]
\* entries: the three timelines are lists in the code; neither their order nor
\* a repeated entry is read by anything but one/only, so a timeline is the set
\* of its entries.
Klasser(n) ==
    LET as == Exactly(Egenskaber, n[1])
        ps == Exactly(Publiceringer, n[2])
        os == Exactly(Overordnede, n[3])
    IN  {[uuid |-> "u1", attribut_egenskab |-> a,
          tilstand_publiceret |-> p, relation_overordnet |-> o] :
            a \in as, p \in ps, o \in os}

NoKlasse ==
    [uuid |-> "u1", attribut_egenskab |-> {}, tilstand_publiceret |-> {},
     relation_overordnet |-> {}]

\* The facet argument of fkk_klasse_to_class_validities.
facet == "f1"

\* ------------------------------------------------------------------ MO class
TicksPerDay == 2

Ticks == 0..MaxTick
OptTicks == {None} \cup {Some(t) : t \in Ticks}

\* time.min: the time of day of a midnight.
time_min == 0
\* datetime.time(): the time of day of a timestamp.
time_of(t) == t % TicksPerDay

\* One element of mo_class.validities.
MOValidities ==
    {[validity |-> [from_ |-> f, to |-> t],
      facet_uuid |-> p.facet_uuid, uuid |-> p.uuid, user_key |-> p.user_key,
      name |-> p.name, parent_uuid |-> p.parent_uuid] :
        f \in OptTicks, t \in OptTicks,
        p \in {[facet_uuid |-> "f1", uuid |-> "u1", user_key |-> "k1",
                name |-> "A", parent_uuid |-> None],
               [facet_uuid |-> "f2", uuid |-> "u2", user_key |-> "k2",
                name |-> "B", parent_uuid |-> Some("p1")]}}

RECURSIVE ListsUpTo(_, _)
\* The lists over S with at most k elements.
ListsUpTo(S, k) ==
    IF k = 0 THEN {<<>>}
    ELSE LET shorter == ListsUpTo(S, k - 1)
         IN  shorter \cup {Append(l, x) : l \in shorter, x \in S}

MOClasses == ListsUpTo(MOValidities, MaxValidities)

\* -------------------------------------------------------------------- state
VARIABLES
    mode,        \* "fkk": fkk_klasse_to_class_validities runs; "mo": the other
    klasse,      \* the FKK Klasse argument
    mo_class,    \* mo_class.validities
    pc,          \* "start", "loop", "done" (exhausted) or "raised"
    timestamps,  \* sorted(timestamps), once collected
    idx,         \* position of the for loop
    out          \* the ClassValidity objects yielded so far

vars == <<mode, klasse, mo_class, pc, timestamps, idx, out>>

Init ==
    /\ \/ mode = "fkk" /\ mo_class = <<>>
          /\ \E n \in Sizes : klasse \in Klasser(n)
       \/ mode = "mo" /\ klasse = NoKlasse /\ mo_class \in MOClasses
    /\ pc = "start"
    /\ timestamps = <<>>
    /\ idx = 1
    /\ out = <<>>

\* ------------------------------------------- fkk_klasse_to_class_validities
\* Mutant: the parent timeline is left out of the chain.
validity_objects_no_parent(k) ==
    k.attribut_egenskab \cup k.tilstand_publiceret

\* itertools.chain of the three timelines
validity_objects(k) ==
    k.attribut_egenskab \cup k.tilstand_publiceret \cup k.relation_overordnet

\* the set of all start and end timestamps
collect_timestamps(k) ==
    {obj.virkning.fra : obj \in validity_objects(k)} \cup
    {obj.virkning.til : obj \in validity_objects(k)}

RECURSIVE sorted(_)
\* sorted(): ascending
sorted(S) ==
    IF S = {} THEN <<>>
    ELSE LET m == CHOOSE x \in S : \A y \in S : x <= y
         IN  <<m>> \o sorted(S \ {m})

\* Mutant: every pair starts at the first timestamp.
pairwise_from_first(ts, i) == <<ts[1], ts[i + 1]>>

\* itertools.pairwise: the i-th pair
pairwise(ts, i) == <<ts[i], ts[i + 1]>>
\* Mutant: the last pair is lost.
pairwise_len_short(ts) == IF Len(ts) < 2 THEN 0 ELSE Len(ts) - 2

\* itertools.pairwise: how many pairs
pairwise_len(ts) == IF Len(ts) < 2 THEN 0 ELSE Len(ts) - 1

filter_virkning(objects, start, end) ==
    {obj \in objects : obj.virkning.fra < end /\ obj.virkning.til > start}

\* more_itertools.one raises ValueError unless there is exactly one item
one_raises(S) == Cardinality(S) # 1
one(S) == CHOOSE x \in S : TRUE
\* Mutant: several items are accepted and one of them is picked.
only_raises_never(S) == FALSE

\* more_itertools.only raises ValueError when there is more than one item
only_raises(S) == Cardinality(S) > 1
only(S) == IF S = {} THEN None ELSE Some(CHOOSE x \in S : TRUE)

validity_start(start) == IF start = NEGATIVE_INFINITY THEN None ELSE Some(start)
\* Mutant: the end is passed on untranslated.
validity_end_raw(end) == Some(end)

validity_end(end) == IF end = POSITIVE_INFINITY THEN None ELSE Some(end)

parent_of(parent) == IF parent # None THEN Some(parent[1].uuid) ELSE None

ClassValidity(f, s, e, u, k, n, p) ==
    [facet |-> f, validity |-> [start |-> s, end |-> e], uuid |-> u,
     user_key |-> k, name |-> n, parent |-> p]

\* The pair the for loop is at
cur_start == pairwise(timestamps, idx)[1]
cur_end == pairwise(timestamps, idx)[2]

\* Mutant: the publication flag is not looked at.
not_published_never(published) == FALSE

\* `not published.er_publiceret` of line 100
not_published(published) == ~published.er_publiceret

\* whether the loop body raises on the pair (start, end)
body_raises(k, start, end) ==
    LET published == filter_virkning(k.tilstand_publiceret, start, end)
    IN  IF one_raises(published) THEN TRUE
        ELSE IF not_published(one(published)) THEN FALSE
        ELSE IF one_raises(filter_virkning(k.attribut_egenskab, start, end))
        THEN TRUE
        ELSE only_raises(filter_virkning(k.relation_overordnet, start, end))

\* whether the loop body skips the pair (start, end)
body_skips(k, start, end) ==
    LET published == filter_virkning(k.tilstand_publiceret, start, end)
    IN  IF one_raises(published) THEN FALSE
        ELSE not_published(one(published))

\* what the loop body yields for the pair (start, end)
body_yield(k, start, end) ==
    LET attribute == one(filter_virkning(k.attribut_egenskab, start, end))
        parent == only(filter_virkning(k.relation_overordnet, start, end))
    IN  ClassValidity(facet, validity_start(start), validity_end(end), k.uuid,
                      attribute.brugervendtnoegle, attribute.titel,
                      parent_of(parent))

\* First resumption: the timestamps are collected and sorted.
SplitCollect ==
    /\ mode = "fkk" /\ pc = "start"
    /\ timestamps' = sorted(collect_timestamps(klasse))
    /\ pc' = "loop"
    /\ UNCHANGED <<mode, klasse, mo_class, idx, out>>

\* Mutant: a malformed interval is skipped instead of raising.
SplitRaise_skips ==
    /\ mode = "fkk" /\ pc = "loop" /\ idx <= pairwise_len(timestamps)
    /\ body_raises(klasse, pairwise(timestamps, idx)[1], pairwise(timestamps, idx)[2])
    /\ idx' = idx + 1
    /\ UNCHANGED <<mode, klasse, mo_class, pc, timestamps, out>>

\* one() or only() raises ValueError: the generator ends with the exception.
SplitRaise ==
    /\ mode = "fkk" /\ pc = "loop" /\ idx <= pairwise_len(timestamps)
    /\ body_raises(klasse, cur_start, cur_end)
    /\ pc' = "raised"
    /\ UNCHANGED <<mode, klasse, mo_class, timestamps, idx, out>>

\* `continue`: the interval is not published.
SplitContinue ==
    /\ mode = "fkk" /\ pc = "loop" /\ idx <= pairwise_len(timestamps)
    /\ ~body_raises(klasse, cur_start, cur_end)
    /\ body_skips(klasse, cur_start, cur_end)
    /\ idx' = idx + 1
    /\ UNCHANGED <<mode, klasse, mo_class, pc, timestamps, out>>

\* `yield ClassValidity(...)`
SplitYield ==
    /\ mode = "fkk" /\ pc = "loop" /\ idx <= pairwise_len(timestamps)
    /\ ~body_raises(klasse, cur_start, cur_end)
    /\ ~body_skips(klasse, cur_start, cur_end)
    /\ out' = Append(out, body_yield(klasse, cur_start, cur_end))
    /\ idx' = idx + 1
    /\ UNCHANGED <<mode, klasse, mo_class, pc, timestamps>>

\* The for loop is exhausted: StopIteration.
SplitStop ==
    /\ mode = "fkk" /\ pc = "loop" /\ idx > pairwise_len(timestamps)
    /\ pc' = "done"
    /\ UNCHANGED <<mode, klasse, mo_class, timestamps, idx, out>>

\* ---------------------------------------- mo_class_read_to_class_validities
\* the zero-length test of line 132
is_zero_length(validity) == validity.validity.from_ = validity.validity.to

\* the assert of line 141 fails
assert_fails(validity) ==
    /\ validity.validity.to # None
    /\ time_of(validity.validity.to[1]) # time_min

\* Mutant: the day is not added.
corrected_end_unchanged(to) == to

\* lines 139-142
corrected_end(to) == IF to # None THEN Some(to[1] + TicksPerDay) ELSE None

mo_yield(validity) ==
    ClassValidity(validity.facet_uuid, validity.validity.from_,
                  corrected_end(validity.validity.to), validity.uuid,
                  validity.user_key, validity.name, validity.parent_uuid)

\* First resumption: the for loop starts.
NormStart ==
    /\ mode = "mo" /\ pc = "start"
    /\ pc' = "loop"
    /\ UNCHANGED <<mode, klasse, mo_class, timestamps, idx, out>>

\* "Ignoring zero-length validity": continue
NormContinue ==
    /\ mode = "mo" /\ pc = "loop" /\ idx <= Len(mo_class)
    /\ is_zero_length(mo_class[idx])
    /\ idx' = idx + 1
    /\ UNCHANGED <<mode, klasse, mo_class, pc, timestamps, out>>

\* The assert fails: AssertionError.
NormRaise ==
    /\ mode = "mo" /\ pc = "loop" /\ idx <= Len(mo_class)
    /\ ~is_zero_length(mo_class[idx])
    /\ assert_fails(mo_class[idx])
    /\ pc' = "raised"
    /\ UNCHANGED <<mode, klasse, mo_class, timestamps, idx, out>>

NormYield ==
    /\ mode = "mo" /\ pc = "loop" /\ idx <= Len(mo_class)
    /\ ~is_zero_length(mo_class[idx])
    /\ ~assert_fails(mo_class[idx])
    /\ out' = Append(out, mo_yield(mo_class[idx]))
    /\ idx' = idx + 1
    /\ UNCHANGED <<mode, klasse, mo_class, pc, timestamps>>

NormStop ==
    /\ mode = "mo" /\ pc = "loop" /\ idx > Len(mo_class)
    /\ pc' = "done"
    /\ UNCHANGED <<mode, klasse, mo_class, timestamps, idx, out>>

Next ==
    \/ SplitCollect
    \/ SplitRaise
    \/ SplitContinue
    \/ SplitYield
    \/ SplitStop
    \/ NormStart
    \/ NormContinue
    \/ NormRaise
    \/ NormYield
    \/ NormStop

Spec == Init /\ [][Next]_vars

\* ===================================================================
\* Properties.  The reference notions below are stated on the Klasse itself,
\* independently of the generator's own helpers.

\* All boundary timestamps of a Klasse.
Boundaries(k) ==
    UNION {{e.virkning.fra, e.virkning.til} :
            e \in k.attribut_egenskab \cup k.tilstand_publiceret
                    \cup k.relation_overordnet}

\* The candidate intervals: consecutive boundaries.
Candidates(k) ==
    {c \in Boundaries(k) \X Boundaries(k) :
        c[1] < c[2] /\ ~\E b \in Boundaries(k) : c[1] < b /\ b < c[2]}

\* The entries of a timeline that satisfy the overlap test for [a, b).
Overlapping(timeline, a, b) ==
    {e \in timeline : e.virkning.fra < b /\ e.virkning.til > a}

\* The candidate has exactly one publication entry, and it says published.
IsPublished(k, c) ==
    /\ Cardinality(Overlapping(k.tilstand_publiceret, c[1], c[2])) = 1
    /\ \A e \in Overlapping(k.tilstand_publiceret, c[1], c[2]) : e.er_publiceret

\* The candidate violates an exactly-one / at-most-one requirement.
Malformed(k, c) ==
    \/ Cardinality(Overlapping(k.tilstand_publiceret, c[1], c[2])) # 1
    \/ /\ IsPublished(k, c)
       /\ \/ Cardinality(Overlapping(k.attribut_egenskab, c[1], c[2])) # 1
          \/ Cardinality(Overlapping(k.relation_overordnet, c[1], c[2])) > 1

WellFormed(k) == \A c \in Candidates(k) : ~Malformed(k, c)

\* The interval of an emitted validity, None read as the infinities.
Lo(v) == IF v.start = None THEN NEGATIVE_INFINITY ELSE v.start[1]
Hi(v) == IF v.end = None THEN POSITIVE_INFINITY ELSE v.end[1]
Interval(cv) == <<Lo(cv.validity), Hi(cv.validity)>>

Emitted == {out[i] : i \in DOMAIN out}

\* C1: the snapshots the splitter emits are in ascending time order and do not
\* overlap: for positions i < j the end of snapshot i is bounded, and it is at
\* most the start of snapshot j (which is therefore bounded too).
C1_AscendingNonOverlapping ==
    mode = "fkk" =>
        \A i \in DOMAIN out : \A j \in DOMAIN out :
            i < j =>
                /\ out[i].validity.end # None
                /\ out[j].validity.start # None
                /\ out[i].validity.end[1] <= out[j].validity.start[1]

C1_Witness ==
    mode = "fkk" /\ pc = "done" /\ Len(out) >= 2

\* C2: every timeline entry that overlaps an emitted snapshot's interval
\* contains the whole interval; no entry starts or ends strictly inside it.
C2_ConstantOverInterval ==
    mode = "fkk" =>
        \A cv \in Emitted :
            \A e \in Overlapping(klasse.attribut_egenskab
                                 \cup klasse.tilstand_publiceret
                                 \cup klasse.relation_overordnet,
                                 Interval(cv)[1], Interval(cv)[2]) :
                e.virkning.fra <= Interval(cv)[1] /\ e.virkning.til >= Interval(cv)[2]

C2_Witness ==
    /\ mode = "fkk" /\ pc = "done" /\ Len(out) = 2
    /\ \E e \in klasse.relation_overordnet :
          e.virkning.fra = Lo(out[2].validity) /\ e.virkning.fra > NEGATIVE_INFINITY

\* C3: no emitted snapshot lies on a candidate interval whose publication
\* entry says unpublished; and once the splitter has run to its end on a
\* well-formed timeline, every published candidate interval has exactly one
\* snapshot.
C3_UnpublishedExcluded ==
    mode = "fkk" =>
        /\ \A cv \in Emitted :
              \A e \in Overlapping(klasse.tilstand_publiceret,
                                   Interval(cv)[1], Interval(cv)[2]) :
                  e.er_publiceret
        /\ (pc = "done" /\ WellFormed(klasse)) =>
              \A c \in Candidates(klasse) :
                  Cardinality({i \in DOMAIN out : Interval(out[i]) = c})
                      = IF IsPublished(klasse, c) THEN 1 ELSE 0

C3_Witness ==
    /\ mode = "fkk" /\ pc = "done" /\ Len(out) = 1
    /\ \E c \in Candidates(klasse) :
          /\ ~IsPublished(klasse, c)
          /\ Overlapping(klasse.attribut_egenskab, c[1], c[2]) # {}
          /\ Overlapping(klasse.relation_overordnet, c[1], c[2]) # {}

\* C4: the splitter ends with an error exactly when some candidate interval is
\* malformed (no or several publication entries; or published with no or
\* several general-properties entries, or with several parent entries).
C4_ErrorIffMalformed ==
    (mode = "fkk" /\ pc \in {"done", "raised"}) =>
        (pc = "raised" <=> ~WellFormed(klasse))

C4_Witness ==
    /\ mode = "fkk" /\ pc = "raised"
    /\ \E c \in Candidates(klasse) :
          /\ IsPublished(klasse, c)
          /\ Cardinality(Overlapping(klasse.attribut_egenskab, c[1], c[2])) = 1
          /\ Cardinality(Overlapping(klasse.relation_overordnet, c[1], c[2])) = 2
    /\ \A c \in Candidates(klasse) :
          Cardinality(Overlapping(klasse.tilstand_publiceret, c[1], c[2])) = 1

\* Published candidate intervals that lie wholly before every malformed one.
BeforeFirstMalformed(k) ==
    {c \in Candidates(k) :
        /\ IsPublished(k, c)
        /\ \A m \in Candidates(k) : Malformed(k, m) => c[2] <= m[1]}

\* C5 as stated: when the splitter raises, the consumer has received no
\* snapshot of the entity.
C5_NothingEmittedOnError ==
    (mode = "fkk" /\ pc = "raised") => out = <<>>

\* C5 as amended: a malformed candidate interval is never skipped, the
\* splitter raises on reaching the first one; by then the consumer has
\* received exactly the snapshots of the published candidate intervals before
\* it, and none for the malformed interval or a later one.
C5_AbortAtFirstMalformed ==
    mode = "fkk" =>
        /\ pc = "done" => WellFormed(klasse)
        /\ pc = "raised" =>
              /\ ~WellFormed(klasse)
              /\ {Interval(cv) : cv \in Emitted} = BeforeFirstMalformed(klasse)
              /\ Len(out) = Cardinality(BeforeFirstMalformed(klasse))

C5_Witness ==
    /\ mode = "fkk" /\ pc = "raised" /\ Len(out) = 1
    /\ \E m \in Candidates(klasse) :
          Malformed(klasse, m) /\ Interval(out[1])[2] <= m[1]

C7_NoZeroLengthOrInverted ==
    \A cv \in Emitted :
        (cv.validity.start # None /\ cv.validity.end # None) =>
            cv.validity.start[1] < cv.validity.end[1]

\* The bounded ends of the remote validities are midnights.
EndsAtMidnight(validities) ==
    \A i \in DOMAIN validities :
        validities[i].validity.to # None =>
            validities[i].validity.to[1] % TicksPerDay = 0

RECURSIVE Reference(_)
\* The reference result of the normalizer.
Reference(validities) ==
    IF validities = <<>> THEN <<>>
    ELSE LET r == Head(validities)
             this ==
                IF r.validity.from_ = r.validity.to THEN <<>>
                ELSE <<[facet |-> r.facet_uuid,
                        validity |->
                            [start |-> r.validity.from_,
                             end |-> IF r.validity.to = None THEN None
                                     ELSE <<r.validity.to[1] + TicksPerDay>>],
                        uuid |-> r.uuid, user_key |-> r.user_key,
                        name |-> r.name, parent |-> r.parent_uuid]>>
         IN  this \o Reference(Tail(validities))

\* C8: on remote validities whose bounded ends are midnights the normalizer
\* raises nothing and, run to its end, has produced the reference: the records
\* with from == to dropped, every other record, in input order, with from as
\* start, to + 1 day (or None) as end and the other fields copied.
C8_NormalizerReference ==
    (mode = "mo" /\ EndsAtMidnight(mo_class)) =>
        /\ pc # "raised"
        /\ Len(out) <= Len(Reference(mo_class))
        /\ \A i \in DOMAIN out : out[i] = Reference(mo_class)[i]
        /\ pc = "done" => out = Reference(mo_class)

C8_Witness ==
    /\ mode = "mo" /\ pc = "done" /\ EndsAtMidnight(mo_class)
    /\ Len(mo_class) = 2 /\ Len(out) = 1
    /\ mo_class[1].validity.from_ = mo_class[1].validity.to
    /\ mo_class[1].validity.to # None
    /\ out[1].validity.end = Some(mo_class[2].validity.to[1] + TicksPerDay)

\* C9: no two emitted snapshots that touch carry the same user_key, name and
\* parent.
C9_Minimal ==
    mode = "fkk" =>
        \A i \in DOMAIN out : \A j \in DOMAIN out :
            (out[i].validity.end # None
             /\ out[i].validity.end = out[j].validity.start) =>
                ~ /\ out[i].user_key = out[j].user_key
                  /\ out[i].name = out[j].name
                  /\ out[i].parent = out[j].parent

Min(S) == CHOOSE x \in S : \A y \in S : x <= y
Max(S) == CHOOSE x \in S : \A y \in S : x >= y

\* C10: the splitter never emits more than N-1 snapshots (N the number of
\* distinct boundary timestamps, none when N < 2); run to its end on a
\* well-formed timeline whose candidate intervals are all published it has
\* considered N-1 candidate intervals and emitted N-1 snapshots, the first
\* starting at the smallest boundary, the last ending at the largest, each
\* ending where the next one starts.
C10_Coverage ==
    mode = "fkk" =>
        LET N == Cardinality(Boundaries(klasse))
            M == IF N < 2 THEN 0 ELSE N - 1
        IN  /\ Len(out) <= M
            /\ (/\ pc = "done"
                /\ WellFormed(klasse)
                /\ \A c \in Candidates(klasse) : IsPublished(klasse, c)) =>
                  /\ idx - 1 = M
                  /\ Len(out) = M
                  /\ M > 0 =>
                        /\ Lo(out[1].validity) = Min(Boundaries(klasse))
                        /\ Hi(out[M].validity) = Max(Boundaries(klasse))
                        /\ \A i \in 1..(M - 1) :
                              /\ out[i].validity.end # None
                              /\ out[i].validity.end = out[i + 1].validity.start

C10_Witness ==
    /\ mode = "fkk" /\ pc = "done" /\ WellFormed(klasse)
    /\ Cardinality(Boundaries(klasse)) = 3
    /\ \A c \in Candidates(klasse) : IsPublished(klasse, c)
    /\ Len(out) = 2

====
